---- MODULE Spec2Model ----
(***************************************************************************)
(* A model of circuitrouter: Route (cjs/Route.js), the per-method trie of   *)
(* RoutesTree (cjs/RoutesTree.js) and the Router registration calls and     *)
(* request pipeline (cjs/Router.js).                                        *)
(*                                                                          *)
(* Strings are sequences of one-character strings, so that split, join,     *)
(* startsWith, slice and the normalisation of a uri are computed and not    *)
(* assumed.  HTTP method tokens are TLA+ strings: the code only compares    *)
(* them and upper-cases them.                                               *)
(***************************************************************************)
EXTENDS Integers, Sequences, FiniteSets, TLC

VARIABLES
    routes,       \* every Route object constructed so far, in construction order
    tree,         \* RoutesTree.root: the nodes in insertion order and node.route
    middlewares,  \* Router.middlewares: the global middleware, in registration order
    groupStack,   \* Router.groupStack: the prefixes of the group() calls being run
    groupDepth,   \* number of group() calls whose callback is running
    ret,          \* outcome of the most recent registration or findRoute call
    reqs          \* the onRequest calls in progress, each with its position and its trace

vars == <<routes, tree, middlewares, groupStack, groupDepth, ret, reqs>>

-----------------------------------------------------------------------------
(* Bounds *)

MaxRoutes == 2      \* Route objects constructed in one run
MaxWheres == 1      \* where() calls in one run
MaxMiddlewares == 2 \* global middleware, and middleware of one route
MaxPathLen == 7     \* characters of a uri given to the Route constructor
MaxRequests == 2    \* onRequest calls in progress at the same time
MaxGroups == 2      \* entries of Router.groupStack

-----------------------------------------------------------------------------
(* Strings *)

\* String.prototype.startsWith(c) for a one-character c
StartsWith(s, c) == Len(s) > 0 /\ s[1] = c

\* String.prototype.slice(1)
Slice1(s) == IF Len(s) = 0 THEN <<>> ELSE Tail(s)

\* s.split('/').filter(Boolean): the non-empty pieces between slashes.
\* cur is the piece read so far.
RECURSIVE SplitFrom(_, _, _)
SplitFrom(s, i, cur) ==
    IF i > Len(s)
    THEN IF cur = <<>> THEN <<>> ELSE <<cur>>
    ELSE IF s[i] = "/"
         THEN (IF cur = <<>> THEN <<>> ELSE <<cur>>) \o SplitFrom(s, i + 1, <<>>)
         ELSE SplitFrom(s, i + 1, Append(cur, s[i]))

SplitParts(s) == SplitFrom(s, 1, <<>>)

\* parts.join('/')
RECURSIVE JoinParts(_)
JoinParts(parts) ==
    IF Len(parts) = 0 THEN <<>>
    ELSE IF Len(parts) = 1 THEN parts[1]
    ELSE parts[1] \o <<"/">> \o JoinParts(Tail(parts))

\* replace(/\/+/g, '/'): every run of slashes becomes one slash
RECURSIVE CollapseSlashes(_)
CollapseSlashes(s) ==
    IF Len(s) = 0 THEN <<>>
    ELSE IF s[1] = "/" /\ Len(s) > 1 /\ s[2] = "/"
         THEN CollapseSlashes(Tail(s))
         ELSE <<s[1]>> \o CollapseSlashes(Tail(s))

\* replace(/\/$/, ''): one trailing slash is removed
StripTrailingSlash(s) ==
    IF Len(s) > 0 /\ s[Len(s)] = "/" THEN SubSeq(s, 1, Len(s) - 1) ELSE s

\* normalizeUri with the two replacements in the other order
normalizeUri_stripFirst(uri) == CollapseSlashes(StripTrailingSlash(<<"/">> \o uri))

\* Route.normalizeUri
normalizeUri(uri) == StripTrailingSlash(CollapseSlashes(<<"/">> \o uri))

\* req.url.split('?')[0]
RECURSIVE BeforeQuery(_)
BeforeQuery(s) ==
    IF Len(s) = 0 \/ s[1] = "?" THEN <<>>
    ELSE <<s[1]>> \o BeforeQuery(Tail(s))

-----------------------------------------------------------------------------
(* RoutesTree: the trie *)

\* A node is named by the method of its sub-trie and the keys on the way to it.
\* tree.order lists the nodes in the order they were created, which gives the
\* insertion order of every children Map; tree.route is node.route (0: unset).
NoRoute == 0

\* constructor(): this.root = { children: new Map() }
EmptyTree == [order |-> <<>>, route |-> <<>>]

NodeId(method, path) == [m |-> method, p |-> path]

NodeSet(t) == {t.order[i] : i \in 1..Len(t.order)}

\* node.children.has(part)
HasChild(t, node, part) == NodeId(node.m, Append(node.p, part)) \in NodeSet(t)

\* node.children.get(part)
GetChild(node, part) == NodeId(node.m, Append(node.p, part))

\* node.route
RouteAt(t, node) == IF node \in DOMAIN t.route THEN t.route[node] ELSE NoRoute

\* node.children.set(part, { children: new Map() }) when the key is absent
SetChild(t, node) ==
    IF node \in NodeSet(t) THEN t
    ELSE [order |-> Append(t.order, node),
          route |-> [n \in NodeSet(t) \cup {node} |->
                        IF n = node THEN NoRoute ELSE t.route[n]]]

\* RoutesTree.findOrCreateMethodNode
findOrCreateMethodNode(t, method) == SetChild(t, NodeId(method, <<>>))

\* the loop over parts of addRoute: creates the missing nodes down to parts[1..k]
RECURSIVE WalkCreate(_, _, _, _)
WalkCreate(t, method, parts, k) ==
    IF k = 0 THEN findOrCreateMethodNode(t, method)
    ELSE SetChild(WalkCreate(t, method, parts, k - 1),
                  NodeId(method, SubSeq(parts, 1, k)))

\* addRoute without the check of node.route: the later registration wins
AddRouteForMethod_overwrite(t, rid, parts, method) ==
    LET w == WalkCreate(t, method, parts, Len(parts))
    IN  [tree |-> [w EXCEPT !.route[NodeId(method, parts)] = rid], threw |-> FALSE]

\* one iteration of the loop over methods of addRoute
AddRouteForMethod(t, rid, parts, method) ==
    LET w == WalkCreate(t, method, parts, Len(parts))
        node == NodeId(method, parts)
    IN  IF w.route[node] # NoRoute
        THEN [tree |-> w, threw |-> TRUE]
        ELSE [tree |-> [w EXCEPT !.route[node] = rid], threw |-> FALSE]

\* RoutesTree.addRoute(route, methods): stops at the first method that throws
RECURSIVE AddRouteFrom(_, _, _, _, _)
AddRouteFrom(t, rid, uri, methods, i) ==
    IF i > Len(methods) THEN [tree |-> t, threw |-> FALSE, at |-> 0]
    ELSE LET one == AddRouteForMethod(t, rid, SplitParts(uri), methods[i])
         IN  IF one.threw THEN [tree |-> one.tree, threw |-> TRUE, at |-> i]
             ELSE AddRouteFrom(one.tree, rid, uri, methods, i + 1)

addRoute(t, rid, uri, methods) == AddRouteFrom(t, rid, uri, methods, 1)

-----------------------------------------------------------------------------
(* RoutesTree: lookup *)

\* const params = {}
EmptyParams == [k \in {} |-> <<>>]

\* params[key] = value
Bind(params, key, value) ==
    [k \in DOMAIN params \cup {key} |-> IF k = key THEN value ELSE params[k]]

\* value contains lit as a contiguous substring
Contains(value, lit) ==
    \E i \in 1..(Len(value) + 1) :
        /\ i + Len(lit) - 1 <= Len(value)
        /\ SubSeq(value, i, i + Len(lit) - 1) = lit

\* a condition under which a RegExp has to match the whole value
TestCondition_fullMatch(condition, value) ==
    CASE condition.kind = "regexp" -> value = condition.lit
      [] condition.kind = "array" -> value \in condition.vals
      [] condition.kind = "function" -> value \in condition.vals

\* One condition of Route.wheres applied to a value.  A RegExp is a literal
\* with or without the anchors ^ and $; an array is its set of elements; a
\* function is the set of values for which it returns true.
TestCondition(condition, value) ==
    CASE condition.kind = "regexp" ->
            IF condition.anchored THEN value = condition.lit
            ELSE Contains(value, condition.lit)
      [] condition.kind = "array" -> value \in condition.vals
      [] condition.kind = "function" -> value \in condition.vals

\* RoutesTree.validateWheres: the first key of wheres that is in params decides
RECURSIVE ValidateFrom(_, _, _)
ValidateFrom(wheres, params, i) ==
    IF i > Len(wheres) THEN TRUE
    ELSE IF wheres[i].key \notin DOMAIN params
         THEN ValidateFrom(wheres, params, i + 1)
         ELSE TestCondition(wheres[i].condition, params[wheres[i].key])

validateWheres(route, params) == ValidateFrom(route.wheres, params, 1)

\* Array.from(node.children.entries()).find(([key]) => key.startsWith(':')):
\* the index in tree.order of the first child of node whose key starts with ':'
IsChildOf(n, node) ==
    /\ n.m = node.m
    /\ Len(n.p) = Len(node.p) + 1
    /\ SubSeq(n.p, 1, Len(node.p)) = node.p

\* the index in tree.order of the last child of node whose key starts with ':'
RECURSIVE FirstParamChild_last(_, _, _)
FirstParamChild_last(t, node, i) ==
    IF i > Len(t.order) THEN 0
    ELSE LET later == FirstParamChild_last(t, node, i + 1)
         IN  IF later # 0 THEN later
             ELSE IF IsChildOf(t.order[i], node)
                     /\ StartsWith(t.order[i].p[Len(t.order[i].p)], ":")
                  THEN i
                  ELSE 0

RECURSIVE FirstParamChild(_, _, _)
FirstParamChild(t, node, i) ==
    IF i > Len(t.order) THEN 0
    ELSE IF IsChildOf(t.order[i], node) /\ StartsWith(t.order[i].p[Len(t.order[i].p)], ":")
         THEN i
         ELSE FirstParamChild(t, node, i + 1)

\* A result of matchRoute: found/route/params are the returned value (null when
\* not found); shared is the params object of findRoute as the call leaves it,
\* because the parameter branch writes into that one object.
Hit(rid, params, shared) ==
    [found |-> TRUE, route |-> rid, params |-> params, shared |-> shared]

Miss(shared) ==
    [found |-> FALSE, route |-> NoRoute, params |-> EmptyParams, shared |-> shared]

RECURSIVE matchRoute(_, _, _, _, _)

\* matchRoute without the exact-literal transition
ExactBranch_skipped(t, rs, node, parts, params) == Miss(params)

\* the exact-literal transition of matchRoute: a child whose key is the segment
ExactBranch(t, rs, node, parts, params) ==
    IF HasChild(t, node, Head(parts))
    THEN matchRoute(t, rs, GetChild(node, Head(parts)), Tail(parts), params)
    ELSE Miss(params)

\* the wildcard transition of matchRoute: the recursive call has no parts left,
\* so it returns the route of the wildcard node with the copied params
WildcardBranch(t, node, parts, params) ==
    LET wildcardNode == GetChild(node, <<"*">>)
        remainingParams == Bind(params, <<"*">>, JoinParts(parts))
    IN  IF HasChild(t, node, <<"*">>) /\ RouteAt(t, wildcardNode) # NoRoute
        THEN Hit(RouteAt(t, wildcardNode), remainingParams, params)
        ELSE Miss(params)

\* the named-parameter transition that goes on to the wildcard child when the
\* constraints reject the route it reached
ParamBranch_retryWildcard(t, rs, node, parts, params) ==
    LET pi == FirstParamChild(t, node, 1)
        paramKey == t.order[pi].p[Len(t.order[pi].p)]
        paramMatch == matchRoute(t, rs, t.order[pi], Tail(parts),
                                 Bind(params, Slice1(paramKey), Head(parts)))
    IN  IF pi # 0
        THEN IF paramMatch.found /\ validateWheres(rs[paramMatch.route], paramMatch.shared)
             THEN paramMatch
             ELSE WildcardBranch(t, node, parts, paramMatch.shared)
        ELSE WildcardBranch(t, node, parts, params)

\* the named-parameter transition of matchRoute, followed by the wildcard
\* transition when the parameter child is absent or leads to no route
ParamBranch(t, rs, node, parts, params) ==
    LET pi == FirstParamChild(t, node, 1)
        paramKey == t.order[pi].p[Len(t.order[pi].p)]
        paramMatch == matchRoute(t, rs, t.order[pi], Tail(parts),
                                 Bind(params, Slice1(paramKey), Head(parts)))
    IN  IF pi # 0
        THEN IF paramMatch.found
             THEN IF validateWheres(rs[paramMatch.route], paramMatch.shared)
                  THEN paramMatch
                  ELSE Miss(paramMatch.shared)
             ELSE WildcardBranch(t, node, parts, paramMatch.shared)
        ELSE WildcardBranch(t, node, parts, params)

\* matchRoute that returns the result of the exact-literal child, found or not,
\* whenever that child exists
matchRoute_noFallback(t, rs, node, parts, params) ==
    IF Len(parts) = 0
    THEN IF RouteAt(t, node) # NoRoute
         THEN Hit(RouteAt(t, node), params, params)
         ELSE Miss(params)
    ELSE IF HasChild(t, node, Head(parts))
         THEN ExactBranch(t, rs, node, parts, params)
         ELSE ParamBranch(t, rs, node, parts, params)

\* matchRoute that, when no transition leads to a route, answers with the route
\* of the node it stands on although request segments are left
matchRoute_leftover(t, rs, node, parts, params) ==
    IF Len(parts) = 0
    THEN IF RouteAt(t, node) # NoRoute
         THEN Hit(RouteAt(t, node), params, params)
         ELSE Miss(params)
    ELSE LET exactMatch == ExactBranch(t, rs, node, parts, params)
             later == IF exactMatch.found THEN exactMatch
                      ELSE ParamBranch(t, rs, node, parts, exactMatch.shared)
         IN  IF ~later.found /\ RouteAt(t, node) # NoRoute
             THEN Hit(RouteAt(t, node), later.shared, later.shared)
             ELSE later

\* the wildcard transition of matchRoute taken also when no segment is left:
\* a node without route answers with the route of its wildcard child
matchRoute_emptyWildcard(t, rs, node, parts, params) ==
    IF Len(parts) = 0
    THEN IF RouteAt(t, node) # NoRoute
         THEN Hit(RouteAt(t, node), params, params)
         ELSE WildcardBranch(t, node, parts, params)
    ELSE LET exactMatch == ExactBranch(t, rs, node, parts, params)
         IN  IF exactMatch.found THEN exactMatch
             ELSE ParamBranch(t, rs, node, parts, exactMatch.shared)

\* RoutesTree.matchRoute
matchRoute(t, rs, node, parts, params) ==
    IF Len(parts) = 0
    THEN IF RouteAt(t, node) # NoRoute
         THEN Hit(RouteAt(t, node), params, params)
         ELSE Miss(params)
    ELSE LET exactMatch == ExactBranch(t, rs, node, parts, params)
         IN  IF exactMatch.found THEN exactMatch
             ELSE ParamBranch(t, rs, node, parts, exactMatch.shared)

\* findRoute that falls back to the POST sub-trie when the method has none
findRoute_fallback(t, rs, method, url) ==
    IF NodeId(method, <<>>) \in NodeSet(t)
    THEN matchRoute(t, rs, NodeId(method, <<>>), SplitParts(url), EmptyParams)
    ELSE IF NodeId("POST", <<>>) \in NodeSet(t)
         THEN matchRoute(t, rs, NodeId("POST", <<>>), SplitParts(url), EmptyParams)
         ELSE Miss(EmptyParams)

\* findRoute that takes a '/' at the end of the url for one more, empty, segment
findRoute_trailingSegment(t, rs, method, url) ==
    IF NodeId(method, <<>>) \in NodeSet(t)
    THEN matchRoute(t, rs, NodeId(method, <<>>),
                    IF Len(url) > 0 /\ url[Len(url)] = "/"
                    THEN Append(SplitParts(url), <<>>) ELSE SplitParts(url),
                    EmptyParams)
    ELSE Miss(EmptyParams)

\* RoutesTree.findRoute
findRoute(t, rs, method, url) ==
    IF NodeId(method, <<>>) \notin NodeSet(t)
    THEN Miss(EmptyParams)
    ELSE matchRoute(t, rs, NodeId(method, <<>>), SplitParts(url), EmptyParams)

-----------------------------------------------------------------------------
(* Route *)

\* new Route(methods, uri, action): middlewares = [], wheres = {}.
\* action is the index of the route (every route has its own handler);
\* returned records whether createRoute handed the object back to its caller.
NewRoute(methods, uri, rid) ==
    [methods |-> methods, uri |-> normalizeUri(uri), action |-> rid,
     middlewares |-> <<>>, wheres |-> <<>>, returned |-> FALSE]

\* this.wheres[param] = condition: an existing key keeps its place
RECURSIVE KeyIndex(_, _, _)
KeyIndex(wheres, key, i) ==
    IF i > Len(wheres) THEN 0
    ELSE IF wheres[i].key = key THEN i ELSE KeyIndex(wheres, key, i + 1)

SetWhere(wheres, key, condition) ==
    LET i == KeyIndex(wheres, key, 1)
    IN  IF i = 0 THEN Append(wheres, [key |-> key, condition |-> condition])
        ELSE [wheres EXCEPT ![i].condition = condition]

-----------------------------------------------------------------------------
(* Router: registration *)

\* METHODS of node:http, cut down to the tokens the model uses (sorted, as there)
METHODS == <<"DELETE", "GET", "HEAD", "POST", "REPORT">>

InMethods(m) == \E i \in 1..Len(METHODS) : METHODS[i] = m

\* String.prototype.toUpperCase on method tokens
toUpperCase(m) ==
    CASE m = "get" -> "GET"
      [] m = "head" -> "HEAD"
      [] m = "post" -> "POST"
      [] m = "report" -> "REPORT"
      [] m = "bogus" -> "BOGUS"
      [] OTHER -> m

SeqIncludes(seq, x) == \E i \in 1..Len(seq) : seq[i] = x

\* The route table is built before the first lookup or request (the routes are
\* registered while the program starts, the server listens afterwards).
Serving == ret.op = "findRoute" \/ Len(reqs) > 0

\* the result of a registration call, kept in ret
RegResult(op, error, rid, methods, uri, at) ==
    [op |-> op, error |-> error, route |-> rid, methods |-> methods,
     parts |-> SplitParts(uri), at |-> at]

\* a registration call that throws before it reaches createRoute
RegTypeError(op) ==
    /\ ret' = RegResult(op, "TypeError", NoRoute, <<>>, <<>>, 0)
    /\ groupDepth' = 0
    /\ UNCHANGED <<routes, tree, middlewares, groupStack, reqs>>

\* the action argument of a registration call that is not a function
NotCallable == 0

\* Router.createRoute(methods, uri, action), methods already an array.
\* An exception leaves through every running group() callback.
createRouteAction(op, methodsArray, uri, action) ==
    LET rid == Len(routes) + 1
        uriWithPrefix == IF Len(groupStack) > 0
                         THEN JoinParts(groupStack) \o uri ELSE uri
        route == [NewRoute(methodsArray, uriWithPrefix, rid) EXCEPT !.action = action]
        added == addRoute(tree, rid, route.uri, methodsArray)
    IN  /\ Len(routes) < MaxRoutes
        /\ ~Serving
        /\ routes' = Append(routes, [route EXCEPT !.returned = ~added.threw])
        /\ tree' = added.tree
        /\ ret' = RegResult(op, IF added.threw THEN "RouteExists" ELSE "none",
                            rid, methodsArray, route.uri, added.at)
        /\ groupDepth' = IF added.threw THEN 0 ELSE groupDepth
        /\ UNCHANGED <<middlewares, groupStack, reqs>>

\* createRoute called with a handler function: the handler of route n is n
createRoute(op, methodsArray, uri) ==
    createRouteAction(op, methodsArray, uri, Len(routes) + 1)

\* Router.get
get(uri) == createRoute("get", <<"GET", "HEAD">>, uri)

\* Router.post
post(uri) == createRoute("post", <<"POST">>, uri)

\* Router.any
any(uri) == createRoute("any", METHODS, uri)

\* methods.map(method => method.toUpperCase())
RECURSIVE MapUpper(_)
MapUpper(methods) ==
    IF Len(methods) = 0 THEN <<>>
    ELSE <<toUpperCase(methods[1])>> \o MapUpper(Tail(methods))

\* Router.match
match(methods, uri) ==
    LET upper == MapUpper(methods)
        upperMethods == IF SeqIncludes(upper, "GET") /\ ~SeqIncludes(upper, "HEAD")
                        THEN Append(upper, "HEAD") ELSE upper
    IN  IF \E i \in 1..Len(upper) : ~InMethods(upper[i])
        THEN ~Serving /\ RegTypeError("match")
        ELSE createRoute("match", upperMethods, uri)

\* Router.method: the token passed on is the argument, not its upper case
method(m, uri) ==
    IF ~InMethods(toUpperCase(m))
    THEN ~Serving /\ RegTypeError("method")
    ELSE IF toUpperCase(m) = "GET"
         THEN createRoute("method", <<"GET", "HEAD">>, uri)
         ELSE createRoute("method", <<m>>, uri)

\* Router.group(prefix, routes) up to the call of its callback:
\* this.groupStack.push(prefix); routes(this)
groupEnter(prefix) ==
    /\ ~Serving
    /\ Len(groupStack) < MaxGroups
    /\ groupStack' = Append(groupStack, prefix)
    /\ groupDepth' = groupDepth + 1
    /\ ret' = [op |-> "group", error |-> "none"]
    /\ UNCHANGED <<routes, tree, middlewares, reqs>>

\* Router.group after its callback has returned: this.groupStack.pop().
\* A callback that throws never comes here (createRoute, RegTypeError).
groupExit ==
    /\ ~Serving
    /\ groupDepth > 0
    /\ groupStack' = SubSeq(groupStack, 1, Len(groupStack) - 1)
    /\ groupDepth' = groupDepth - 1
    /\ ret' = [op |-> "groupEnd", error |-> "none"]
    /\ UNCHANGED <<routes, tree, middlewares, reqs>>

\* Route.where(param, pattern) on a route that createRoute returned
where(rid, param, condition) ==
    /\ rid \in 1..Len(routes)
    /\ routes[rid].returned
    /\ ~Serving
    /\ routes' = [routes EXCEPT ![rid].wheres = SetWhere(@, param, condition)]
    /\ ret' = [op |-> "where", error |-> "none", route |-> rid]
    /\ UNCHANGED <<tree, middlewares, groupStack, groupDepth, reqs>>

\* for (const key in param) this.wheres[key] = ...: the entries in object order
RECURSIVE SetWheres(_, _)
SetWheres(wheres, entries) ==
    IF Len(entries) = 0 THEN wheres
    ELSE SetWheres(SetWhere(wheres, entries[1].key, entries[1].condition), Tail(entries))

\* Route.where(object) on a route some registration call returned
whereObject(rid, entries) ==
    /\ rid \in 1..Len(routes)
    /\ routes[rid].returned
    /\ ~Serving
    /\ routes' = [routes EXCEPT ![rid].wheres = SetWheres(@, entries)]
    /\ ret' = [op |-> "where", error |-> "none", route |-> rid]
    /\ UNCHANGED <<tree, middlewares, groupStack, groupDepth, reqs>>

\* RoutesTree.findRoute called on the router's tree
FindRoute(m, url) ==
    LET res == findRoute(tree, routes, m, url)
    IN  /\ ret' = [op |-> "findRoute", error |-> "none", method |-> m, url |-> url,
                   found |-> res.found, route |-> res.route, params |-> res.params]
        /\ UNCHANGED <<routes, tree, middlewares, groupStack, groupDepth, reqs>>

-----------------------------------------------------------------------------
(* Middleware registration *)

\* Router.middleware(handler): the global middleware are named by their position
RouterMiddleware ==
    /\ ~Serving
    /\ Len(middlewares) < MaxMiddlewares
    /\ middlewares' = Append(middlewares, Len(middlewares) + 1)
    /\ ret' = [op |-> "middleware", error |-> "none"]
    /\ UNCHANGED <<routes, tree, groupStack, groupDepth, reqs>>

\* Route.middleware(handler) on a route that createRoute returned
RouteMiddleware(rid) ==
    /\ ~Serving
    /\ rid \in 1..Len(routes)
    /\ routes[rid].returned
    /\ Len(routes[rid].middlewares) < MaxMiddlewares
    /\ routes' = [routes EXCEPT ![rid].middlewares = Append(@, Len(@) + 1)]
    /\ ret' = [op |-> "routeMiddleware", error |-> "none", route |-> rid]
    /\ UNCHANGED <<tree, middlewares, groupStack, groupDepth, reqs>>

-----------------------------------------------------------------------------
(* Router.onRequest *)

\* A callback of the pipeline: a global middleware, a middleware of the matched
\* route, its handler (action), or one of the two hooks.
Callback(kind, id) == [kind |-> kind, id |-> id]

\* An event of the trace of a request: a callback is called (start), the promise
\* it returned is fulfilled (end), or it throws or its promise is rejected (throw).
Event(ev, who) == [ev |-> ev, who |-> who]

\* onRequest(req, res) is called
NewRequest(m, url) ==
    [method |-> m, url |-> url, pc |-> "received", i |-> 0,
     route |-> NoRoute, params |-> EmptyParams, awaited |-> Callback("none", 0),
     trace |-> <<>>]

\* await callback(...): the callback is called and onRequest waits at pc
Await(req, who, pc) ==
    [req EXCEPT !.trace = Append(@, Event("start", who)), !.awaited = who, !.pc = pc]

Finished(req) == req.pc \in {"done", "rejected"}

\* one onRequest call at a time: the next one starts when the last has returned
Receive(m, url) ==
    /\ \A r \in 1..Len(reqs) : Finished(reqs[r])
    /\ reqs' = <<NewRequest(m, url)>>
    /\ UNCHANGED <<routes, tree, middlewares, groupStack, groupDepth, ret>>

\* onRequest that goes from the check of the request straight to the lookup
CheckRequest_skipGlobal(r) ==
    /\ reqs[r].pc = "received"
    /\ reqs' = [reqs EXCEPT ![r].pc =
                  IF reqs[r].url = <<>> \/ reqs[r].method = "" THEN "notFound" ELSE "matching",
                            ![r].i = 1]
    /\ UNCHANGED <<routes, tree, middlewares, groupStack, groupDepth, ret>>

\* where onRequest goes on when an awaited callback throws and the exception
\* is swallowed
Thrown_swallowed(pc) ==
    CASE pc = "awaitGlobal" -> "matching"
      [] pc = "awaitRoute" -> "handling"
      [] pc = "awaitHandler" -> "done"
      [] pc = "awaitNotFound" -> "done"
      [] pc = "awaitError" -> "rejected"

\* onRequest is called while earlier calls are suspended at an await
ReceiveConcurrent(m, url) ==
    /\ Len(reqs) < MaxRequests
    /\ reqs' = Append(reqs, NewRequest(m, url))
    /\ UNCHANGED <<routes, tree, middlewares, groupStack, groupDepth, ret>>

\* if (!req.url || !req.method): the empty string stands for an absent value
CheckRequest(r) ==
    /\ reqs[r].pc = "received"
    /\ reqs' = [reqs EXCEPT ![r].pc =
                  IF reqs[r].url = <<>> \/ reqs[r].method = "" THEN "notFound" ELSE "global",
                            ![r].i = 1]
    /\ UNCHANGED <<routes, tree, middlewares, groupStack, groupDepth, ret>>

\* the loop over the global middleware without await: the middleware is called
\* and the loop goes on at once
GlobalMiddleware_noAwait(r) ==
    /\ reqs[r].pc = "global"
    /\ reqs' = [reqs EXCEPT ![r] =
                  IF reqs[r].i <= Len(middlewares)
                  THEN [@ EXCEPT !.trace = Append(@, Event("start",
                                        Callback("global", middlewares[reqs[r].i]))),
                                 !.i = @ + 1]
                  ELSE [@ EXCEPT !.pc = "matching"]]
    /\ UNCHANGED <<routes, tree, middlewares, groupStack, groupDepth, ret>>

\* for (const middleware of this.middlewares) await middleware(req, res)
GlobalMiddleware(r) ==
    /\ reqs[r].pc = "global"
    /\ reqs' = [reqs EXCEPT ![r] =
                  IF reqs[r].i <= Len(middlewares)
                  THEN Await(@, Callback("global", middlewares[reqs[r].i]), "awaitGlobal")
                  ELSE [@ EXCEPT !.pc = "matching"]]
    /\ UNCHANGED <<routes, tree, middlewares, groupStack, groupDepth, ret>>

\* the lookup with one params object for all requests: the bindings of this
\* lookup replace the params of every request that has some
Matching_sharedParams(r) ==
    LET matchedRoute == findRoute(tree, routes, reqs[r].method, BeforeQuery(reqs[r].url))
    IN  /\ reqs[r].pc = "matching"
        /\ reqs' = [q \in 1..Len(reqs) |->
                      IF q # r
                      THEN IF matchedRoute.found /\ reqs[q].route # NoRoute
                           THEN [reqs[q] EXCEPT !.params = matchedRoute.params]
                           ELSE reqs[q]
                      ELSE IF ~matchedRoute.found
                           THEN [reqs[q] EXCEPT !.pc = "notFound"]
                           ELSE [reqs[q] EXCEPT !.pc = "route", !.i = 1,
                                                !.route = matchedRoute.route,
                                                !.params = matchedRoute.params]]
        /\ UNCHANGED <<routes, tree, middlewares, groupStack, groupDepth, ret>>

\* the lookup: findRoute(req.method, req.url.split('?')[0]); req.params = ...
Matching(r) ==
    LET matchedRoute == findRoute(tree, routes, reqs[r].method, BeforeQuery(reqs[r].url))
    IN  /\ reqs[r].pc = "matching"
        /\ reqs' = [reqs EXCEPT ![r] =
                      IF ~matchedRoute.found
                      THEN [@ EXCEPT !.pc = "notFound"]
                      ELSE [@ EXCEPT !.pc = "route", !.i = 1,
                                     !.route = matchedRoute.route,
                                     !.params = matchedRoute.params]]
        /\ UNCHANGED <<routes, tree, middlewares, groupStack, groupDepth, ret>>

\* await this.notFoundHandler(req, res); return
NotFound(r) ==
    /\ reqs[r].pc = "notFound"
    /\ reqs' = [reqs EXCEPT ![r] = Await(@, Callback("notFound", 0), "awaitNotFound")]
    /\ UNCHANGED <<routes, tree, middlewares, groupStack, groupDepth, ret>>

\* for (const routeMiddleware of matchedRoute.route.middlewares) await ...
RouteMiddlewares(r) ==
    /\ reqs[r].pc = "route"
    /\ reqs' = [reqs EXCEPT ![r] =
                  IF reqs[r].i <= Len(routes[reqs[r].route].middlewares)
                  THEN Await(@, Callback("route", routes[reqs[r].route].middlewares[reqs[r].i]),
                             "awaitRoute")
                  ELSE [@ EXCEPT !.pc = "handling"]]
    /\ UNCHANGED <<routes, tree, middlewares, groupStack, groupDepth, ret>>

\* await matchedRoute.route.action(req, res): calling what is not a function
\* throws a TypeError inside the try block
Handling(r) ==
    /\ reqs[r].pc = "handling"
    /\ reqs' = [reqs EXCEPT ![r] =
                  IF routes[reqs[r].route].action = NotCallable
                  THEN [@ EXCEPT !.trace = Append(@, Event("throw", Callback("handler", NotCallable))),
                                 !.pc = "catch"]
                  ELSE Await(@, Callback("handler", routes[reqs[r].route].action),
                             "awaitHandler")]
    /\ UNCHANGED <<routes, tree, middlewares, groupStack, groupDepth, ret>>

\* where onRequest goes on when the awaited promise is fulfilled
Resumed(pc) ==
    CASE pc = "awaitGlobal" -> "global"
      [] pc = "awaitRoute" -> "route"
      [] pc = "awaitHandler" -> "done"
      [] pc = "awaitNotFound" -> "done"
      [] pc = "awaitError" -> "done"

\* where onRequest goes on when the awaited callback throws: everything but the
\* error hook is awaited inside the try block
Thrown(pc) == IF pc = "awaitError" THEN "rejected" ELSE "catch"

AwaitStates == {"awaitGlobal", "awaitRoute", "awaitHandler", "awaitNotFound", "awaitError"}

\* the awaited callback completes
Fulfil(r) ==
    /\ reqs[r].pc \in AwaitStates
    /\ reqs' = [reqs EXCEPT ![r].trace = Append(@, Event("end", reqs[r].awaited)),
                            ![r].pc = Resumed(reqs[r].pc),
                            ![r].i = @ + 1]
    /\ UNCHANGED <<routes, tree, middlewares, groupStack, groupDepth, ret>>

\* the awaited callback throws or rejects
Reject(r) ==
    /\ reqs[r].pc \in AwaitStates
    /\ reqs' = [reqs EXCEPT ![r].trace = Append(@, Event("throw", reqs[r].awaited)),
                            ![r].pc = Thrown(reqs[r].pc)]
    /\ UNCHANGED <<routes, tree, middlewares, groupStack, groupDepth, ret>>

\* catch (err) { await this.errorHandler(err, req, res) }
Catch(r) ==
    /\ reqs[r].pc = "catch"
    /\ reqs' = [reqs EXCEPT ![r] = Await(@, Callback("error", 0), "awaitError")]
    /\ UNCHANGED <<routes, tree, middlewares, groupStack, groupDepth, ret>>

-----------------------------------------------------------------------------
(* Inputs *)

UriLiteral == <<"/", "u", "/", "m">>          \* "/u/m"
UriParam == <<"/", "u", "/", ":", "i">>       \* "/u/:i"
UriWildcard == <<"/", "u", "/", "*">>         \* "/u/*"

Uris == {UriLiteral, UriParam, UriWildcard}

Urls == {UriLiteral, UriParam, UriWildcard,
         <<"/", "u", "/", "7">>,              \* "/u/7"
         <<"/", "u", "/", "7", "/", "m">>,    \* "/u/7/m"
         <<"/", "u">>}                        \* "/u"

RequestMethods == {"GET", "POST"}

Conditions ==
    {[kind |-> "array", vals |-> {<<"7">>, <<"m">>}],
     [kind |-> "function", vals |-> {<<"7">>}]}

ParamNames == {<<"i">>}

-----------------------------------------------------------------------------
(* The router after construction *)

NoCall == [op |-> "none", error |-> "none"]

Init ==
    /\ routes = <<>>
    /\ tree = EmptyTree
    /\ middlewares = <<>>
    /\ groupStack = <<>>
    /\ groupDepth = 0
    /\ ret = NoCall
    /\ reqs = <<>>

RECURSIVE WheresCount(_)
WheresCount(rs) ==
    IF Len(rs) = 0 THEN 0 ELSE Len(rs[1].wheres) + WheresCount(Tail(rs))

Get == \E uri \in Uris : get(uri)
Post == \E uri \in Uris : post(uri)
Where == \E rid \in 1..Len(routes), p \in ParamNames, c \in Conditions :
            WheresCount(routes) < MaxWheres /\ where(rid, p, c)
Find == \E m \in RequestMethods, url \in Urls : FindRoute(m, url)

Next == Get \/ Post \/ Where \/ Find

Spec == Init /\ [][Next]_vars

-----------------------------------------------------------------------------
(* Vocabulary of the lookup properties *)

IsParamSegment(seg) == StartsWith(seg, ":")
IsWildcardSegment(seg) == seg = <<"*">>
IsLiteralSegment(seg) == ~IsParamSegment(seg) /\ ~IsWildcardSegment(seg)

AllLiteral(parts) == \A k \in 1..Len(parts) : IsLiteralSegment(parts[k])

\* the segments of the pattern of route rid
PatternOf(rid) == SplitParts(routes[rid].uri)

\* the nodes of the sub-trie of method m that carry a route
BoundNodes(m) == {n \in NodeSet(tree) : n.m = m /\ tree.route[n] # NoRoute}

\* rid is bound under m at its own pattern and nothing else is bound under m
SoleRoute(m, rid) == BoundNodes(m) = {NodeId(m, PatternOf(rid))} /\
                     RouteAt(tree, NodeId(m, PatternOf(rid))) = rid

Looked == ret.op = "findRoute"
RequestParts == SplitParts(ret.url)

\* the request has the shape of the pattern: as many segments, equal literals
SameShape(pattern, parts) ==
    /\ Len(pattern) = Len(parts)
    /\ \A k \in 1..Len(pattern) : IsLiteralSegment(pattern[k]) => parts[k] = pattern[k]

ParamPositions(pattern) == {k \in 1..Len(pattern) : IsParamSegment(pattern[k])}

-----------------------------------------------------------------------------
(* C2: when a literal pattern and a named-parameter pattern are registered   *)
(* for one method at the same position, a lookup of the literal path returns *)
(* the route of the literal pattern, whichever was registered first.         *)
C2_ExactOverParameter ==
    Looked =>
        LET node == NodeId(ret.method, RequestParts)
        IN  (/\ AllLiteral(RequestParts)
             /\ Len(RequestParts) > 0
             /\ RouteAt(tree, node) # NoRoute
             /\ FirstParamChild(tree, NodeId(node.m, SubSeq(node.p, 1, Len(node.p) - 1)), 1) # 0)
            => ret.found /\ ret.route = RouteAt(tree, node)

\* the parameter pattern was registered first, then the literal one, and the
\* literal path was looked up
C2_Witness ==
    /\ Looked /\ ret.method = "GET" /\ ret.url = UriLiteral /\ ret.found
    /\ Len(routes) = 2
    /\ routes[1].uri = UriParam /\ RouteAt(tree, NodeId("GET", PatternOf(1))) = 1
    /\ routes[2].uri = UriLiteral /\ ret.route = 2

(* C3: a request with the shape of a pattern with named parameters resolves  *)
(* to that pattern's route with every parameter name bound to the request    *)
(* segment at its position (stated for a route without constraints that is   *)
(* the only one of its method).                                              *)
C3_ParameterBinding ==
    Looked =>
        \A rid \in 1..Len(routes) :
            (/\ SoleRoute(ret.method, rid)
             /\ routes[rid].wheres = <<>>
             /\ ParamPositions(PatternOf(rid)) # {}
             /\ \A k \in 1..Len(PatternOf(rid)) : ~IsWildcardSegment(PatternOf(rid)[k])
             /\ SameShape(PatternOf(rid), RequestParts))
            => /\ ret.found /\ ret.route = rid
               /\ \A k \in ParamPositions(PatternOf(rid)) :
                    /\ Slice1(PatternOf(rid)[k]) \in DOMAIN ret.params
                    /\ ret.params[Slice1(PatternOf(rid)[k])] = RequestParts[k]

(* C4: a request that reaches the wildcard position of a pattern ending in   *)
(* '*' with at least one segment left resolves to that route with '*' bound  *)
(* to the remaining segments joined by '/' (stated for a route that is the   *)
(* only one of its method and whose other segments are literals).            *)
C4_WildcardConsumption ==
    Looked =>
        \A rid \in 1..Len(routes) :
            LET pattern == PatternOf(rid)
                n == Len(pattern)
            IN  (/\ SoleRoute(ret.method, rid)
                 /\ n > 0 /\ IsWildcardSegment(pattern[n])
                 /\ AllLiteral(SubSeq(pattern, 1, n - 1))
                 /\ Len(RequestParts) >= n
                 /\ SubSeq(RequestParts, 1, n - 1) = SubSeq(pattern, 1, n - 1))
                => /\ ret.found /\ ret.route = rid
                   /\ <<"*">> \in DOMAIN ret.params
                   /\ ret.params[<<"*">>] =
                        JoinParts(SubSeq(RequestParts, n, Len(RequestParts)))

(* C5: a route with one named parameter constrained by a list of allowed     *)
(* values or by a predicate is returned exactly when the request segment at  *)
(* the parameter is allowed (stated for a route that is the only one of its  *)
(* method).                                                                  *)
C5_ConstraintEnforcement ==
    Looked =>
        \A rid \in 1..Len(routes) :
            LET pattern == PatternOf(rid)
            IN  (/\ SoleRoute(ret.method, rid)
                 /\ Cardinality(ParamPositions(pattern)) = 1
                 /\ \A k \in 1..Len(pattern) : ~IsWildcardSegment(pattern[k])
                 /\ Len(routes[rid].wheres) = 1
                 /\ routes[rid].wheres[1].condition.kind \in {"array", "function"}
                 /\ \A k \in ParamPositions(pattern) :
                        routes[rid].wheres[1].key = Slice1(pattern[k])
                 /\ SameShape(pattern, RequestParts))
                => \A k \in ParamPositions(pattern) :
                     (ret.found /\ ret.route = rid)
                        <=> RequestParts[k] \in routes[rid].wheres[1].condition.vals

(* C6: findRoute only returns a route that was registered under the method   *)
(* of the request, and a method without registrations resolves to not-found. *)
C6_MethodIsolation ==
    Looked =>
        /\ ret.found =>
             /\ SeqIncludes(routes[ret.route].methods, ret.method)
             /\ \E n \in BoundNodes(ret.method) : tree.route[n] = ret.route
        /\ BoundNodes(ret.method) = {} => ~ret.found

\* a path that is registered for POST only was looked up with GET, while GET
\* has a sub-trie of its own
C6_Witness ==
    /\ Looked /\ ret.method = "GET" /\ ~ret.found
    /\ RouteAt(tree, NodeId("POST", RequestParts)) # NoRoute
    /\ RouteAt(tree, NodeId("GET", RequestParts)) = NoRoute
    /\ BoundNodes("GET") # {}

-----------------------------------------------------------------------------
(* The registration calls of Router *)

UriUnnormalized == <<"u", "/", "/", "m", "/">>   \* "u//m/", normalized "/u/m"

RegUris == {UriLiteral, UriUnnormalized, UriParam}
MethodArgs == {"HEAD", "get", "bogus"}
MatchArgs == {<<"post", "get">>, <<"HEAD", "get">>, <<"bogus">>}

RegGet == \E uri \in RegUris : get(uri)
RegAny == \E uri \in RegUris : any(uri)
RegMethod == \E m \in MethodArgs, uri \in RegUris : method(m, uri)
RegMatch == \E ms \in MatchArgs, uri \in RegUris : match(ms, uri)
RegFind == \E m \in {"GET", "HEAD"}, url \in {UriLiteral, <<"/", "u", "/", "7">>} :
              FindRoute(m, url)

NextReg == RegGet \/ RegAny \/ RegMethod \/ RegMatch \/ RegFind

SpecReg == Init /\ [][NextReg]_vars

RegOps == {"get", "post", "any", "match", "method"}

Distinct(seq) == \A i, j \in 1..Len(seq) : seq[i] = seq[j] => i = j

(* C1: a registration of a (method, normalized pattern) pair that is already *)
(* bound fails with 'route already exists' and the route bound first stays   *)
(* bound; a registration of a pattern under methods for which it is not yet  *)
(* bound succeeds and binds the new route under each of them.                *)
C1_Step ==
    /\ \A n \in NodeSet(tree) :
          tree.route[n] # NoRoute =>
              n \in NodeSet(tree') /\ tree'.route[n] = tree.route[n]
    /\ (ret'.op \in RegOps /\ routes' # routes) =>
          LET ms == ret'.methods
              bound(i) == RouteAt(tree, NodeId(ms[i], ret'.parts)) # NoRoute
          IN  /\ (\E i \in 1..Len(ms) : bound(i)) => ret'.error = "RouteExists"
              /\ ((\A i \in 1..Len(ms) : ~bound(i)) /\ Distinct(ms)) =>
                    /\ ret'.error = "none"
                    /\ \A i \in 1..Len(ms) :
                          RouteAt(tree', NodeId(ms[i], ret'.parts)) = ret'.route

C1_RegistrationUniqueness == [][C1_Step]_vars

\* a second registration of a bound pair was refused and the first route is
\* still the one bound there
C1_Witness ==
    /\ ret.op \in RegOps /\ ret.error = "RouteExists"
    /\ Len(routes) = 2 /\ ret.route = 2 /\ ret.at = 1
    /\ RouteAt(tree, NodeId(ret.methods[1], ret.parts)) = 1

(* C7: after any sequence of registration calls, every pattern that has a    *)
(* route bound for GET has the same route bound for HEAD.                    *)
C7_GetImpliesHead ==
    \A n \in BoundNodes("GET") : RouteAt(tree, NodeId("HEAD", n.p)) = tree.route[n]

-----------------------------------------------------------------------------
(* The request pipeline *)

UrlMatched == <<"/", "u", "/", "7", "?", "q">>   \* "/u/7?q"
UrlUnmatched == <<"/", "x">>                      \* "/x"

Requests == {<<"GET", UrlMatched>>, <<"GET", UrlUnmatched>>, <<"", UrlMatched>>}

DispatchGet == get(UriParam)
DispatchRouteMiddleware == \E rid \in 1..Len(routes) : RouteMiddleware(rid)
DispatchReceive == \E q \in Requests : Receive(q[1], q[2])
DispatchCheck == \E r \in 1..Len(reqs) : CheckRequest(r)
DispatchGlobal == \E r \in 1..Len(reqs) : GlobalMiddleware(r)
DispatchMatching == \E r \in 1..Len(reqs) : Matching(r)
DispatchNotFound == \E r \in 1..Len(reqs) : NotFound(r)
DispatchRoute == \E r \in 1..Len(reqs) : RouteMiddlewares(r)
DispatchHandling == \E r \in 1..Len(reqs) : Handling(r)
DispatchFulfil == \E r \in 1..Len(reqs) : Fulfil(r)
DispatchReject == \E r \in 1..Len(reqs) : Reject(r)
DispatchCatch == \E r \in 1..Len(reqs) : Catch(r)

NextDispatch ==
    \/ DispatchGet \/ RouterMiddleware \/ DispatchRouteMiddleware
    \/ DispatchReceive \/ DispatchCheck \/ DispatchGlobal \/ DispatchMatching
    \/ DispatchNotFound \/ DispatchRoute \/ DispatchHandling
    \/ DispatchFulfil \/ DispatchReject \/ DispatchCatch

SpecDispatch == Init /\ [][NextDispatch]_vars

\* the callbacks of the pipeline proper (not the hooks) that a trace started
PipelineKinds == {"global", "route", "handler"}

RECURSIVE Started(_)
Started(trace) ==
    IF Len(trace) = 0 THEN <<>>
    ELSE IF trace[1].ev = "start" /\ trace[1].who.kind \in PipelineKinds
         THEN <<trace[1].who>> \o Started(Tail(trace))
         ELSE Started(Tail(trace))

\* global middleware in registration order, then the middleware of the matched
\* route in registration order, then its handler
Expected(req) ==
    [i \in 1..Len(middlewares) |-> Callback("global", middlewares[i])] \o
    (IF req.route = NoRoute THEN <<>>
     ELSE [i \in 1..Len(routes[req.route].middlewares) |->
              Callback("route", routes[req.route].middlewares[i])]
          \o <<Callback("handler", routes[req.route].action)>>)

IsPrefix(a, b) == Len(a) <= Len(b) /\ SubSeq(b, 1, Len(a)) = a

Count(trace, e) == Cardinality({k \in 1..Len(trace) : trace[k] = e})

Occurs(trace, e) == \E k \in 1..Len(trace) : trace[k] = e

NoThrow(trace) == \A k \in 1..Len(trace) : trace[k].ev # "throw"

(* C8: for a matched request onRequest calls the global middleware, then the *)
(* middleware of the route, then the handler, each list in registration      *)
(* order, and calls each one only after the one before it has completed.     *)
C8_MiddlewareOrder ==
    \A r \in 1..Len(reqs) :
        LET req == reqs[r]
            trace == req.trace
        IN  /\ IsPrefix(Started(trace), Expected(req))
            /\ \A k \in 1..Len(trace) :
                  (trace[k].ev = "start" /\ trace[k].who.kind \in PipelineKinds /\ k > 1)
                  => /\ trace[k - 1].ev = "end"
                     /\ trace[k - 1].who = Started(SubSeq(trace, 1, k - 1))
                                              [Len(Started(SubSeq(trace, 1, k - 1)))]
            /\ (req.pc = "done" /\ req.route # NoRoute /\ NoThrow(trace))
                  => Started(trace) = Expected(req)

\* a matched request with two global and two route middleware has run to the
\* end of its handler
C8_Witness ==
    \E r \in 1..Len(reqs) :
        /\ reqs[r].pc = "done" /\ reqs[r].route # NoRoute
        /\ Len(middlewares) = 2 /\ Len(routes[reqs[r].route].middlewares) = 2
        /\ Len(reqs[r].trace) = 10
        /\ reqs[r].trace[10] = Event("end", Callback("handler", routes[reqs[r].route].action))

\* the request has a method and a url, and the lookup finds no route for it
Unmatched(req) ==
    /\ req.url # <<>> /\ req.method # ""
    /\ ~findRoute(tree, routes, req.method, BeforeQuery(req.url)).found

(* C9: a handler that raises causes exactly one call of the error hook and   *)
(* none of the not-found hook; a request for an unmatched path (whose global *)
(* middleware all completed) causes exactly one call of the not-found hook   *)
(* and none of the error hook.                                               *)
C9_ErrorFunneling ==
    \A r \in 1..Len(reqs) :
        LET req == reqs[r]
            errorCalls == Count(req.trace, Event("start", Callback("error", 0)))
            notFoundCalls == Count(req.trace, Event("start", Callback("notFound", 0)))
        IN  Finished(req) =>
              /\ (\E k \in 1..Len(req.trace) :
                     req.trace[k].ev = "throw" /\ req.trace[k].who.kind = "handler")
                 => errorCalls = 1 /\ notFoundCalls = 0
              /\ (/\ Unmatched(req)
                  /\ \A k \in 1..Len(req.trace) :
                        ~(req.trace[k].ev = "throw" /\ req.trace[k].who.kind = "global"))
                 => notFoundCalls = 1 /\ errorCalls = 0

(* C10: for every request, whatever the callbacks do, exactly one of these   *)
(* occurs: the handler ran to completion, the not-found hook ran, the error  *)
(* hook ran.                                                                 *)
C10_ExactlyOneOutcome ==
    \A r \in 1..Len(reqs) :
        LET req == reqs[r]
            handled == \E k \in 1..Len(req.trace) :
                          req.trace[k].ev = "end" /\ req.trace[k].who.kind = "handler"
            notFound == Occurs(req.trace, Event("start", Callback("notFound", 0)))
            errored == Occurs(req.trace, Event("start", Callback("error", 0)))
        IN  Finished(req) =>
              /\ handled \/ notFound \/ errored
              /\ ~(handled /\ notFound) /\ ~(handled /\ errored) /\ ~(notFound /\ errored)

-----------------------------------------------------------------------------
(* Normalization of the uri by the Route constructor *)

PathAlphabet == {"/", "a", "b"}

Paths == UNION {[1..n -> PathAlphabet] : n \in 0..MaxPathLen}

\* a call new Route(methods, uri, action) about to be made on a fresh router
InitNorm ==
    /\ routes = <<>>
    /\ tree = EmptyTree
    /\ middlewares = <<>>
    /\ groupStack = <<>>
    /\ groupDepth = 0
    /\ reqs = <<>>
    /\ \E uri \in Paths : ret = [op |-> "newRoute", error |-> "none", uri |-> uri]

\* new Route(methods, uri, action): the uri given and the uri stored
Normalize ==
    /\ ret.op = "newRoute"
    /\ ret' = [op |-> "normalizeUri", error |-> "none", uri |-> ret.uri,
               result |-> NewRoute(<<"GET">>, ret.uri, 1).uri]
    /\ UNCHANGED <<routes, tree, middlewares, groupStack, groupDepth, reqs>>

NextNorm == Normalize

SpecNorm == InitNorm /\ [][NextNorm]_vars

Normalized == ret.op = "normalizeUri"

(* C11: normalization is idempotent, normalize(normalize(p)) = normalize(p)   *)
(* for every path p, and normalize("//a//b/") = "/a/b".                       *)
C11_NormalizeIdempotent ==
    Normalized =>
        /\ normalizeUri(ret.result) = ret.result
        /\ ret.uri = <<"/", "/", "a", "/", "/", "b", "/">>
              => ret.result = <<"/", "a", "/", "b">>

\* "//a//b/" was normalized
C11_Witness ==
    /\ Normalized
    /\ ret.uri = <<"/", "/", "a", "/", "/", "b", "/">>
    /\ ret.result = <<"/", "a", "/", "b">>

(* C12: the normalized pattern stored in Route.uri begins with '/', has no    *)
(* run of two or more '/', and has no trailing '/' unless it is the root,     *)
(* which stays exactly "/".                                                   *)
C12_NormalizedShape ==
    Normalized =>
        /\ StartsWith(ret.result, "/")
        /\ \A k \in 1..(Len(ret.result) - 1) :
              ~(ret.result[k] = "/" /\ ret.result[k + 1] = "/")
        /\ (Len(ret.result) > 0 /\ ret.result[Len(ret.result)] = "/")
              => ret.result = <<"/">>
        /\ ret.uri = <<"/">> => ret.result = <<"/">>

-----------------------------------------------------------------------------
(* Registration with an empty method list or without a handler function *)

CtorGet == \E uri \in Uris, action \in {1, NotCallable} :
              createRouteAction("get", <<"GET", "HEAD">>, uri,
                                IF action = NotCallable THEN NotCallable ELSE Len(routes) + 1)
CtorMatch == \E ms \in {<<>>, <<"post">>}, uri \in Uris : match(ms, uri)
CtorFind == \E url \in {UriLiteral, <<"/", "u", "/", "7">>} : FindRoute("GET", url)

NextCtor == CtorGet \/ CtorMatch \/ CtorFind

SpecCtor == Init /\ [][NextCtor]_vars

\* the nodes of the trie that carry route rid
NodesOf(rid) == {n \in NodeSet(tree) : tree.route[n] = rid}

(* C13: a registration with an empty method set or with a handler that is    *)
(* not callable fails with a validation error and binds nothing in the trie. *)
C13_ConstructionValidated ==
    (/\ ret.op \in RegOps
     /\ ret.route # NoRoute
     /\ \/ routes[ret.route].methods = <<>>
        \/ routes[ret.route].action = NotCallable)
    => ret.error = "TypeError" /\ NodesOf(ret.route) = {}

-----------------------------------------------------------------------------
(* Constraints on two parameters of one pattern *)

UriTwoParams == <<"/", ":", "a", "/", ":", "b">>
UrlsTwoParams == {<<"/", x, "/", y>> : x \in {"7", "m"}, y \in {"7", "m"}}
OnlySeven == {[kind |-> "array", vals |-> {<<"7">>}],
              [kind |-> "function", vals |-> {<<"7">>}]}

WheresGet == get(UriTwoParams)
WheresPost == post(UriTwoParams)
WheresWhere == \E rid \in 1..Len(routes), ca \in OnlySeven, cb \in OnlySeven :
                  /\ WheresCount(routes) < MaxWheres
                  /\ whereObject(rid, <<[key |-> <<"a">>, condition |-> ca],
                                        [key |-> <<"b">>, condition |-> cb]>>)
WheresWhereOne == \E rid \in 1..Len(routes), c \in OnlySeven :
                      WheresCount(routes) < MaxWheres /\ where(rid, <<"b">>, c)
WheresFind == \E m \in RequestMethods, url \in UrlsTwoParams : FindRoute(m, url)

NextWheres == WheresGet \/ WheresPost \/ WheresWhere \/ WheresWhereOne \/ WheresFind

SpecWheres == Init /\ [][NextWheres]_vars

(* C14: whenever findRoute returns a match, every bound parameter that has a *)
(* constraint in the matched route's wheres satisfies that constraint.       *)
C14_AllConstraintsHold ==
    (ret.op = "findRoute" /\ ret.found) =>
        \A i \in 1..Len(routes[ret.route].wheres) :
            LET w == routes[ret.route].wheres[i]
            IN  w.key \in DOMAIN ret.params
                    => TestCondition(w.condition, ret.params[w.key])

-----------------------------------------------------------------------------
(* Router.method with method names in either letter case *)

MethodNames == {"report", "REPORT", "get", "bogus"}

MethodCall == \E m \in MethodNames, uri \in {UriLiteral, UriParam} : method(m, uri)
MethodFind == \E m \in {"REPORT", "GET"}, url \in {UriLiteral, <<"/", "u", "/", "7">>} :
                  FindRoute(m, url)

NextMethod == MethodCall \/ MethodFind

SpecMethod == Init /\ [][NextMethod]_vars

(* C15: a route registered with Router.method for a valid method name in any *)
(* letter case is stored under the uppercase method token, and a request of  *)
(* that uppercase method for its (literal) path returns it.                  *)
C15_MethodUppercased ==
    /\ (ret.op = "method" /\ ret.error = "none") =>
          \A i \in 1..Len(routes[ret.route].methods) :
              /\ routes[ret.route].methods[i] = toUpperCase(routes[ret.route].methods[i])
              /\ InMethods(routes[ret.route].methods[i])
    /\ Looked =>
          \A rid \in 1..Len(routes) :
              (/\ routes[rid].returned
               /\ AllLiteral(PatternOf(rid))
               /\ PatternOf(rid) = RequestParts
               /\ \E i \in 1..Len(routes[rid].methods) :
                      toUpperCase(routes[rid].methods[i]) = ret.method)
              => ret.found /\ ret.route = rid

-----------------------------------------------------------------------------
(* The three transitions at one node: literal, parameter and wildcard        *)
(* children of the method root                                               *)

UriDeep == <<"/", "a", "/", "b">>
UriRootParam == <<"/", ":", "x">>
UriRootWildcard == <<"/", "*">>
UriParamX == <<"/", ":", "x", "/", "c">>
UriParamY == <<"/", ":", "y", "/", "d">>
BranchUris == {UriDeep, UriRootParam, UriRootWildcard, UriParamX, UriParamY}
BranchUrls == {<<"/", "a">>, <<"/", "a", "/", "b">>, <<"/", "a", "/", "c">>,
               <<"/", "a", "/", "d">>, <<"/", "c">>}

BranchGet == \E uri \in BranchUris : get(uri)
BranchFind == \E url \in BranchUrls : FindRoute("GET", url)

NextBranch == BranchGet \/ BranchFind

SpecBranch == Init /\ [][NextBranch]_vars

\* n lies strictly below node in the trie
Below(n, node) ==
    /\ n.m = node.m
    /\ Len(n.p) > Len(node.p)
    /\ SubSeq(n.p, 1, Len(node.p)) = node.p

\* every key on the way from node to a node below it is a literal
LiteralBelow(node) ==
    \A n \in NodeSet(tree) :
        Below(n, node) => AllLiteral(SubSeq(n.p, Len(node.p) + 1, Len(n.p)))

\* the descent from node along parts ends without a route: only literal keys
\* lie below node, and the node the parts lead to is absent or has no route
DescentFails(node, parts) ==
    /\ node \in NodeSet(tree)
    /\ LiteralBelow(node)
    /\ RouteAt(tree, NodeId(node.m, node.p \o parts)) = NoRoute

\* the lookup met, at the method root, an exact-literal child for the first
\* request segment, and the descent beneath that child found nothing
ExactChildFailed ==
    /\ Looked
    /\ Len(RequestParts) > 0
    /\ AllLiteral(RequestParts)
    /\ DescentFails(GetChild(NodeId(ret.method, <<>>), RequestParts[1]), Tail(RequestParts))

(* C16: when an exact-literal child exists for the current segment and the   *)
(* descent beneath it returns no match, the lookup does not retry the        *)
(* parameter or wildcard children of that node: the lookup finds nothing.    *)
C16_ExactNoFallback == ExactChildFailed => ~ret.found

(* C16, as the code has it: when an exact-literal child exists and the       *)
(* descent beneath it returns no match, the lookup goes on to the parameter  *)
(* child of the same node, and to its wildcard child when there is no        *)
(* parameter child or the descent beneath that one finds nothing either.     *)
C16_ExactFallsThrough ==
    ExactChildFailed =>
        LET root == NodeId(ret.method, <<>>)
            pi == FirstParamChild(tree, root, 1)
            paramNode == tree.order[pi]
            wildcardNode == GetChild(root, <<"*">>)
        IN  /\ (/\ pi # 0
                /\ Len(RequestParts) = 1
                /\ RouteAt(tree, paramNode) # NoRoute
                /\ routes[RouteAt(tree, paramNode)].wheres = <<>>)
               => /\ ret.found
                  /\ ret.route = RouteAt(tree, paramNode)
                  /\ ret.params = Bind(EmptyParams, Slice1(paramNode.p[1]), RequestParts[1])
            /\ (/\ pi = 0 \/ DescentFails(paramNode, Tail(RequestParts))
                /\ RouteAt(tree, wildcardNode) # NoRoute)
               => /\ ret.found
                  /\ ret.route = RouteAt(tree, wildcardNode)
                  /\ <<"*">> \in DOMAIN ret.params
                  /\ ret.params[<<"*">>] = JoinParts(RequestParts)

\* /a/b and /:x are registered and /a is looked up: the child a exists, has no
\* route, and the parameter child answers
C16_Witness ==
    /\ ExactChildFailed
    /\ ret.url = <<"/", "a">>
    /\ RouteAt(tree, NodeId("GET", <<<<"a">>, <<"b">>>>)) # NoRoute
    /\ RouteAt(tree, NodeId("GET", <<<<":", "x">>>>)) # NoRoute
    /\ ret.found

-----------------------------------------------------------------------------
\* The lookup of /u/<segment> came to the parameter child of the node u (no
\* literal child answers the segment), that child carries a route, and the
\* route's constraint on the parameter rejects the segment.
ParamRejected ==
    /\ Looked
    /\ Len(RequestParts) = 2
    /\ LET node == NodeId(ret.method, <<RequestParts[1]>>)
           pi == FirstParamChild(tree, node, 1)
           paramNode == tree.order[pi]
           rid == RouteAt(tree, paramNode)
       IN  /\ node \in NodeSet(tree)
           /\ RouteAt(tree, GetChild(node, RequestParts[2])) = NoRoute
           /\ pi # 0
           /\ rid # NoRoute
           /\ Len(routes[rid].wheres) > 0
           /\ routes[rid].wheres[1].key = Slice1(paramNode.p[2])
           /\ ~TestCondition(routes[rid].wheres[1].condition, RequestParts[2])

(* C17: when the parameter branch at a node reaches a route whose constraint *)
(* rejects the segment, the lookup finds nothing, whether or not the node    *)
(* has a wildcard child with a route.                                        *)
C17_RejectedParamNoWildcard == ParamRejected => ~ret.found

\* /u/:i, constrained, and /u/* are both registered and the segment is rejected
C17_Witness ==
    /\ ParamRejected
    /\ RouteAt(tree, NodeId(ret.method, <<RequestParts[1], <<"*">>>>)) # NoRoute
    /\ ~ret.found

-----------------------------------------------------------------------------
\* The bindings made on the way to the node of pattern by a request of these
\* parts: a parameter key binds its name to the segment unless the segment is
\* the key itself (the exact transition), and a wildcard key binds "*" to the
\* rest of the path unless the rest is the one segment "*".
ParamBindings(pattern, parts) ==
    {k \in ParamPositions(pattern) : k <= Len(parts) /\ parts[k] # pattern[k]}

WildcardBindings(pattern, parts) ==
    {k \in 1..Len(pattern) : /\ IsWildcardSegment(pattern[k])
                             /\ k <= Len(parts)
                             /\ SubSeq(parts, k, Len(parts)) # <<pattern[k]>>}

PathBindings(pattern, parts) ==
    LET names == {Slice1(pattern[k]) : k \in ParamBindings(pattern, parts)}
        stars == WildcardBindings(pattern, parts)
    IN  [key \in names \cup (IF stars = {} THEN {} ELSE {<<"*">>}) |->
            IF key \in names
            THEN parts[CHOOSE k \in ParamBindings(pattern, parts) : Slice1(pattern[k]) = key]
            ELSE JoinParts(SubSeq(parts, CHOOSE k \in stars : TRUE, Len(parts)))]

(* C18: the params findRoute returns are exactly the bindings made along the *)
(* path from the method root to the matched node; nothing bound on a branch  *)
(* that was abandoned is in the result.                                      *)
C18_OnlyPathBindings ==
    (Looked /\ ret.found) =>
        ret.params = PathBindings(PatternOf(ret.route), RequestParts)

-----------------------------------------------------------------------------
\* the parameter children of node, as indices of tree.order
ParamChildren(node) ==
    {i \in 1..Len(tree.order) :
        IsChildOf(tree.order[i], node) /\ IsParamSegment(tree.order[i].p[Len(tree.order[i].p)])}

\* The lookup came to the parameter transition of the method root, which has
\* two parameter children; the request continues below a later-registered one
\* to a route, and below the first-registered one to none; the root has no
\* wildcard child.
SecondParamOnly ==
    /\ Looked
    /\ Len(RequestParts) > 0
    /\ AllLiteral(RequestParts)
    /\ LET root == NodeId(ret.method, <<>>)
       IN  /\ ~HasChild(tree, root, RequestParts[1])
           /\ ~HasChild(tree, root, <<"*">>)
           /\ \E first \in ParamChildren(root) :
                  /\ \A j \in ParamChildren(root) : first <= j
                  /\ DescentFails(tree.order[first], Tail(RequestParts))
                  /\ \E j \in ParamChildren(root) :
                         /\ j > first
                         /\ RouteAt(tree, NodeId(ret.method,
                                                 tree.order[j].p \o Tail(RequestParts)))
                               # NoRoute

(* C19: a pattern that puts another parameter name at a position where a     *)
(* parameter child exists is registered without error, and the lookup takes  *)
(* the first-registered parameter child only: a request that only a pattern  *)
(* below a later parameter child could serve is not found.                   *)
C19_FirstParamChildOnly ==
    /\ (/\ ret.op = "get"
        /\ Len(ret.parts) > 0
        /\ IsParamSegment(ret.parts[1])
        /\ Cardinality(ParamChildren(NodeId("GET", <<>>))) > 1
        /\ \A r \in 1..(ret.route - 1) : routes[r].uri # routes[ret.route].uri)
       => /\ ret.error = "none"
          /\ RouteAt(tree, NodeId("GET", ret.parts)) = ret.route
    /\ SecondParamOnly => ~ret.found

\* /:x/c was registered, then /:y/d, and /a/d is looked up
C19_Witness ==
    /\ SecondParamOnly
    /\ Len(routes) = 2
    /\ routes[1].uri = UriParamX /\ routes[1].returned
    /\ routes[2].uri = UriParamY /\ routes[2].returned
    /\ ret.url = <<"/", "a", "/", "d">>
    /\ ~ret.found

-----------------------------------------------------------------------------
\* The request parts are used up on the way to a node with these keys: key by
\* key, a literal key equal to its segment and a parameter key for any
\* segment, or a last key "*" for all the segments from its position on.
KeysTake(keys, parts, n) ==
    \A k \in 1..n : parts[k] = keys[k] \/ IsParamSegment(keys[k])

Consumes(keys, parts) ==
    \/ Len(keys) = Len(parts) /\ KeysTake(keys, parts, Len(keys))
    \/ /\ Len(keys) > 0
       /\ IsWildcardSegment(keys[Len(keys)])
       /\ Len(parts) >= Len(keys)
       /\ KeysTake(keys, parts, Len(keys) - 1)

(* C20: a lookup yields a match only at a node that carries the returned     *)
(* route and is reached when all request segments are consumed; a request    *)
(* that is a strict prefix of the registered patterns, or that has segments  *)
(* left beyond a pattern without wildcard, is not found.                     *)
C20_MatchOnlyAtTerminal ==
    (Looked /\ ret.found) =>
        \E n \in NodeSet(tree) :
            /\ n.m = ret.method
            /\ RouteAt(tree, n) = ret.route
            /\ Consumes(n.p, RequestParts)

\* /u/:i is the only pattern of the method and /u/7/m, which has a segment
\* left over beyond it, is not found
C20_Witness ==
    /\ Looked /\ ~ret.found
    /\ ret.url = <<"/", "u", "/", "7", "/", "m">>
    /\ \E rid \in 1..Len(routes) :
           routes[rid].uri = UriParam /\ SoleRoute(ret.method, rid)

-----------------------------------------------------------------------------
\* the request carries a method and a url
HasMethodAndUrl(req) == req.url # <<>> /\ req.method # ""

\* every global middleware called and completed, in registration order
RECURSIVE GlobalRun(_)
GlobalRun(i) ==
    IF i > Len(middlewares) THEN <<>>
    ELSE <<Event("start", Callback("global", middlewares[i])),
           Event("end", Callback("global", middlewares[i]))>> \o GlobalRun(i + 1)

\* a callback of this kind threw in the trace
ThrewIn(trace, kind) ==
    \E k \in 1..Len(trace) : trace[k].ev = "throw" /\ trace[k].who.kind = kind

(* C21: for a request with a method and a url every global middleware has    *)
(* run, in registration order, when the route lookup is performed, also when *)
(* the request ends in the not-found hook; for a request without method or   *)
(* url the not-found hook is called directly and no middleware runs.         *)
C21_GlobalBeforeLookup ==
    \A r \in 1..Len(reqs) :
        LET req == reqs[r]
        IN  /\ (/\ HasMethodAndUrl(req)
                /\ req.pc \notin {"received", "global", "awaitGlobal"}
                /\ ~ThrewIn(req.trace, "global"))
               => IsPrefix(GlobalRun(1), req.trace)
            /\ (/\ HasMethodAndUrl(req)
                /\ Occurs(req.trace, Event("start", Callback("notFound", 0))))
               => /\ IsPrefix(GlobalRun(1), req.trace)
                  /\ req.trace[Len(GlobalRun(1)) + 1] = Event("start", Callback("notFound", 0))
            /\ ~HasMethodAndUrl(req)
               => /\ \A k \in 1..Len(req.trace) : req.trace[k].who.kind \notin PipelineKinds
                  /\ req.pc \notin {"received", "notFound"}
                        => req.trace[1] = Event("start", Callback("notFound", 0))

\* a request for an unmatched path has run both global middleware and then
\* the not-found hook
C21_Witness ==
    \E r \in 1..Len(reqs) :
        /\ Unmatched(reqs[r])
        /\ Len(middlewares) = 2
        /\ reqs[r].pc = "done"
        /\ reqs[r].trace = GlobalRun(1) \o <<Event("start", Callback("notFound", 0)),
                                              Event("end", Callback("notFound", 0))>>

(* C22: a failure raised by a global middleware, a route middleware or the   *)
(* handler is followed at once by the call of the error hook, and no lookup, *)
(* middleware, handler or not-found hook runs after it.                      *)
C22_FailureBypassesRest ==
    \A r \in 1..Len(reqs) :
        LET req == reqs[r]
            trace == req.trace
        IN  \A k \in 1..Len(trace) :
                (trace[k].ev = "throw" /\ trace[k].who.kind \in PipelineKinds)
                => /\ k < Len(trace) => trace[k + 1] = Event("start", Callback("error", 0))
                   /\ k = Len(trace) => req.pc = "catch"
                   /\ \A j \in (k + 1)..Len(trace) : trace[j].who.kind = "error"
                   /\ trace[k].who.kind = "global" => req.route = NoRoute
                   /\ req.pc \in {"catch", "awaitError", "done", "rejected"}

\* the first of two route middleware failed and the error hook has run
C22_Witness ==
    \E r \in 1..Len(reqs) :
        /\ reqs[r].pc = "done"
        /\ reqs[r].route # NoRoute
        /\ Len(routes[reqs[r].route].middlewares) = 2
        /\ Occurs(reqs[r].trace,
                  Event("throw", Callback("route", routes[reqs[r].route].middlewares[1])))
        /\ Occurs(reqs[r].trace, Event("end", Callback("error", 0)))

-----------------------------------------------------------------------------
(* Requests in progress at the same time: one route /u/:i, at most one       *)
(* global and one route middleware, callbacks that complete                  *)

ConcurrentUrls == {<<"/", "u", "/", "7">>, <<"/", "u", "/", "m">>}

ConcurrentGet == routes = <<>> /\ get(UriParam)
ConcurrentMiddleware == middlewares = <<>> /\ RouterMiddleware
ConcurrentRouteMiddleware ==
    \E rid \in 1..Len(routes) : routes[rid].middlewares = <<>> /\ RouteMiddleware(rid)
ConcurrentReceive == \E url \in ConcurrentUrls : ReceiveConcurrent("GET", url)

NextConcurrent ==
    \/ ConcurrentGet \/ ConcurrentMiddleware \/ ConcurrentRouteMiddleware
    \/ ConcurrentReceive \/ DispatchCheck \/ DispatchGlobal \/ DispatchMatching
    \/ DispatchNotFound \/ DispatchRoute \/ DispatchHandling \/ DispatchFulfil

SpecConcurrent == Init /\ [][NextConcurrent]_vars

(* C23: when requests interleave at the awaits of their middleware and       *)
(* handlers, each request calls its global middleware, its route middleware  *)
(* and its handler in that order, each after the one before has completed,   *)
(* and its params are the bindings of its own path only.                     *)
C23_RequestsIndependent ==
    \A r \in 1..Len(reqs) :
        LET req == reqs[r]
            trace == req.trace
        IN  /\ IsPrefix(Started(trace), Expected(req))
            /\ \A k \in 2..Len(trace) :
                  (trace[k].ev = "start" /\ trace[k].who.kind \in PipelineKinds)
                  => trace[k - 1].ev = "end"
            /\ req.pc = "done" /\ req.route # NoRoute => Started(trace) = Expected(req)
            /\ req.route # NoRoute
               => req.params = PathBindings(PatternOf(req.route),
                                            SplitParts(BeforeQuery(req.url)))

\* two requests for different paths are both past the lookup and suspended,
\* the second one further on than the first
C23_Witness ==
    /\ Len(reqs) >= 2
    /\ reqs[1].pc = "awaitRoute" /\ reqs[2].pc = "awaitHandler"
    /\ reqs[1].url # reqs[2].url
    /\ Len(middlewares) = 1

-----------------------------------------------------------------------------
(* A parameter constrained by a regular expression: /7/ and /^7$/ on :i      *)

RegExps == {[kind |-> "regexp", lit |-> <<"7">>, anchored |-> a] : a \in BOOLEAN}
RegExpUrls == {<<"/", "u", "/", "7">>, <<"/", "u", "/", "x", "7">>, <<"/", "u", "/", "m">>}

RegExpGet == get(UriParam)
RegExpPost == post(UriParam)
RegExpWhere == \E rid \in 1..Len(routes), c \in RegExps :
                   WheresCount(routes) < MaxWheres /\ where(rid, <<"i">>, c)
RegExpFind == \E m \in RequestMethods, url \in RegExpUrls : FindRoute(m, url)

NextRegExp == RegExpGet \/ RegExpPost \/ RegExpWhere \/ RegExpFind

SpecRegExp == Init /\ [][NextRegExp]_vars

\* the lookup came to the parameter :i of a route of the request's method
\* whose one constraint is a regular expression on i
RegExpTested(rid) ==
    /\ Looked
    /\ rid \in 1..Len(routes)
    /\ RouteAt(tree, NodeId(ret.method, PatternOf(rid))) = rid
    /\ PatternOf(rid) = SplitParts(UriParam)
    /\ SameShape(PatternOf(rid), RequestParts)
    /\ RequestParts[2] # PatternOf(rid)[2]
    /\ Len(routes[rid].wheres) = 1
    /\ routes[rid].wheres[1].key = <<"i">>
    /\ routes[rid].wheres[1].condition.kind = "regexp"

-----------------------------------------------------------------------------
(* C25: a registration call that fails with 'route already exists' leaves    *)
(* the trie as it was before the call: no method stays bound to the new      *)
(* route and no new node remains.                                            *)
C25_Step ==
    (ret'.op \in RegOps /\ routes' # routes /\ ret'.error = "RouteExists")
        => tree' = tree

C25_FailedRegistrationNoEffect == [][C25_Step]_vars

-----------------------------------------------------------------------------
(* C26: for every match, also for a request path with a segment that is      *)
(* literally ':name' or '*', each named parameter of the matched pattern is  *)
(* a key of params bound to the request segment at its position and          *)
(* satisfies its constraint, and a pattern ending in '*' has the key '*'     *)
(* bound.                                                                    *)
C26_SigilsNotLiterals ==
    (Looked /\ ret.found) =>
        LET pattern == PatternOf(ret.route)
            wheres == routes[ret.route].wheres
        IN  /\ \A k \in ParamPositions(pattern) :
                  /\ k <= Len(RequestParts)
                  /\ Slice1(pattern[k]) \in DOMAIN ret.params
                  /\ ret.params[Slice1(pattern[k])] = RequestParts[k]
                  /\ \A w \in 1..Len(wheres) :
                        wheres[w].key = Slice1(pattern[k])
                            => TestCondition(wheres[w].condition, RequestParts[k])
            /\ (Len(pattern) > 0 /\ IsWildcardSegment(pattern[Len(pattern)]))
                  => <<"*">> \in DOMAIN ret.params

-----------------------------------------------------------------------------
(* Router.onRequest of the ESM build.  Its positions carry the prefix esm, so *)
(* that a request is run by the steps of one build only.  The middleware are  *)
(* async functions: a call returns a promise, which settles later.            *)

\* onRequest(req, res) of the ESM build is called
EsmRequest(m, url) == [NewRequest(m, url) EXCEPT !.pc = "esmReceived"]

\* the same request is given to the onRequest of both builds
ReceiveBoth(m, url) ==
    /\ \A r \in 1..Len(reqs) : Finished(reqs[r])
    /\ reqs' = <<NewRequest(m, url), EsmRequest(m, url)>>
    /\ UNCHANGED <<routes, tree, middlewares, groupStack, groupDepth, ret>>

\* if (!req.url || !req.method)
EsmCheckRequest(r) ==
    /\ reqs[r].pc = "esmReceived"
    /\ reqs' = [reqs EXCEPT ![r].pc =
                  IF reqs[r].url = <<>> \/ reqs[r].method = ""
                  THEN "esmNotFound" ELSE "esmMatching"]
    /\ UNCHANGED <<routes, tree, middlewares, groupStack, groupDepth, ret>>

\* the lookup, which the ESM build does before any middleware is called
EsmMatching(r) ==
    LET matchedRoute == findRoute(tree, routes, reqs[r].method, BeforeQuery(reqs[r].url))
    IN  /\ reqs[r].pc = "esmMatching"
        /\ reqs' = [reqs EXCEPT ![r] =
                      IF ~matchedRoute.found
                      THEN [@ EXCEPT !.pc = "esmNotFound"]
                      ELSE [@ EXCEPT !.pc = "esmGlobal", !.i = 1,
                                     !.route = matchedRoute.route,
                                     !.params = matchedRoute.params]]
        /\ UNCHANGED <<routes, tree, middlewares, groupStack, groupDepth, ret>>

\* await this.notFoundHandler(req, res); return
EsmNotFound(r) ==
    /\ reqs[r].pc = "esmNotFound"
    /\ reqs' = [reqs EXCEPT ![r] = Await(@, Callback("notFound", 0), "esmAwaitNotFound")]
    /\ UNCHANGED <<routes, tree, middlewares, groupStack, groupDepth, ret>>

\* for await (const middleware of this.middlewares) { middleware(req, res); }
\* the middleware is called and the promise it returns is dropped
EsmGlobalMiddleware(r) ==
    /\ reqs[r].pc = "esmGlobal"
    /\ reqs' = [reqs EXCEPT ![r] =
                  IF reqs[r].i <= Len(middlewares)
                  THEN [@ EXCEPT !.trace = Append(@, Event("start",
                                        Callback("global", middlewares[reqs[r].i]))),
                                 !.i = @ + 1]
                  ELSE [@ EXCEPT !.pc = "esmRoute", !.i = 1]]
    /\ UNCHANGED <<routes, tree, middlewares, groupStack, groupDepth, ret>>

\* for await (const routeMiddleware of matchedRoute.route.middlewares)
\* { routeMiddleware(req, res); }
EsmRouteMiddlewares(r) ==
    /\ reqs[r].pc = "esmRoute"
    /\ reqs' = [reqs EXCEPT ![r] =
                  IF reqs[r].i <= Len(routes[reqs[r].route].middlewares)
                  THEN [@ EXCEPT !.trace = Append(@, Event("start",
                                        Callback("route",
                                                 routes[reqs[r].route].middlewares[reqs[r].i]))),
                                 !.i = @ + 1]
                  ELSE [@ EXCEPT !.pc = "esmHandling"]]
    /\ UNCHANGED <<routes, tree, middlewares, groupStack, groupDepth, ret>>

\* await matchedRoute.route.action(req, res)
EsmHandling(r) ==
    /\ reqs[r].pc = "esmHandling"
    /\ reqs' = [reqs EXCEPT ![r] =
                  Await(@, Callback("handler", routes[reqs[r].route].action),
                        "esmAwaitHandler")]
    /\ UNCHANGED <<routes, tree, middlewares, groupStack, groupDepth, ret>>

EsmAwaitStates == {"esmAwaitHandler", "esmAwaitNotFound", "esmAwaitError"}

\* the awaited callback completes: each await of the ESM onRequest is its last
EsmFulfil(r) ==
    /\ reqs[r].pc \in EsmAwaitStates
    /\ reqs' = [reqs EXCEPT ![r].trace = Append(@, Event("end", reqs[r].awaited)),
                            ![r].pc = "done"]
    /\ UNCHANGED <<routes, tree, middlewares, groupStack, groupDepth, ret>>

\* the awaited callback throws or rejects
EsmReject(r) ==
    /\ reqs[r].pc \in EsmAwaitStates
    /\ reqs' = [reqs EXCEPT ![r].trace = Append(@, Event("throw", reqs[r].awaited)),
                            ![r].pc = IF reqs[r].pc = "esmAwaitError"
                                      THEN "rejected" ELSE "esmCatch"]
    /\ UNCHANGED <<routes, tree, middlewares, groupStack, groupDepth, ret>>

\* catch (err) { await this.errorHandler(err, req, res) }
EsmCatch(r) ==
    /\ reqs[r].pc = "esmCatch"
    /\ reqs' = [reqs EXCEPT ![r] = Await(@, Callback("error", 0), "esmAwaitError")]
    /\ UNCHANGED <<routes, tree, middlewares, groupStack, groupDepth, ret>>

\* the middleware calls of the trace whose promise has not settled
Unsettled(trace) ==
    {k \in 1..Len(trace) :
        /\ trace[k].ev = "start"
        /\ trace[k].who.kind \in {"global", "route"}
        /\ \A j \in (k + 1)..Len(trace) : trace[j].who # trace[k].who}

\* the promise of a middleware that was called without await settles: a
\* rejection is seen by nobody
EsmSettle(r, ev) ==
    /\ \E k \in Unsettled(reqs[r].trace) :
          reqs' = [reqs EXCEPT ![r].trace = Append(@, Event(ev, reqs[r].trace[k].who))]
    /\ UNCHANGED <<routes, tree, middlewares, groupStack, groupDepth, ret>>

\* The two builds on the same router state and the same request: the first
\* request of the pair is run by the CJS steps, the second by the ESM steps,
\* which start when the CJS onRequest has returned.
EsmReceive == \E q \in Requests : ReceiveBoth(q[1], q[2])
EsmTurn == Len(reqs) > 1 /\ Finished(reqs[1])
EsmCheck == EsmTurn /\ EsmCheckRequest(Len(reqs))
EsmLookup == EsmTurn /\ EsmMatching(Len(reqs))
EsmMissing == EsmTurn /\ EsmNotFound(Len(reqs))
EsmGlobal == EsmTurn /\ EsmGlobalMiddleware(Len(reqs))
EsmRoute == EsmTurn /\ EsmRouteMiddlewares(Len(reqs))
EsmHandler == EsmTurn /\ EsmHandling(Len(reqs))
EsmFulfilled == EsmTurn /\ EsmFulfil(Len(reqs))
EsmRejected == EsmTurn /\ EsmReject(Len(reqs))
EsmCaught == EsmTurn /\ EsmCatch(Len(reqs))
EsmSettled == EsmTurn /\ EsmSettle(Len(reqs), "end")
EsmSettledRejected == EsmTurn /\ EsmSettle(Len(reqs), "throw")

NextEsm ==
    \/ ConcurrentGet \/ ConcurrentMiddleware \/ ConcurrentRouteMiddleware
    \/ EsmReceive
    \/ DispatchCheck \/ DispatchGlobal \/ DispatchMatching \/ DispatchNotFound
    \/ DispatchRoute \/ DispatchHandling \/ DispatchFulfil \/ DispatchReject
    \/ DispatchCatch
    \/ EsmCheck \/ EsmLookup \/ EsmMissing \/ EsmGlobal \/ EsmRoute \/ EsmHandler
    \/ EsmFulfilled \/ EsmRejected \/ EsmCaught \/ EsmSettled \/ EsmSettledRejected

SpecEsm == Init /\ [][NextEsm]_vars

(* C27: the onRequest of the ESM build is equivalent to that of the CJS      *)
(* build: when both have finished the same request and no callback failed,   *)
(* their sequences of events are the same (global middleware before the      *)
(* lookup, also for unmatched paths, each middleware awaited), and a failure *)
(* of a middleware is followed by the error hook.                            *)
C27_EsmEquivalent ==
    (/\ Len(reqs) > 1
     /\ Finished(reqs[1]) /\ Finished(reqs[2])
     /\ Unsettled(reqs[2].trace) = {})
    => /\ (NoThrow(reqs[1].trace) /\ NoThrow(reqs[2].trace))
              => reqs[2].trace = reqs[1].trace
       /\ \A k \in 1..Len(reqs[2].trace) :
              (reqs[2].trace[k].ev = "throw" /\ reqs[2].trace[k].who.kind \in PipelineKinds)
              => Occurs(reqs[2].trace, Event("start", Callback("error", 0)))

-----------------------------------------------------------------------------
(* Route groups *)

GroupPrefix == <<"/", "g">>
GroupUrls == {UriLiteral, GroupPrefix \o UriLiteral}

GroupEnter == groupEnter(GroupPrefix)
GroupExit == groupExit
GroupGet == get(UriLiteral)
GroupFind == \E url \in GroupUrls : FindRoute("GET", url)

NextGroup == GroupEnter \/ GroupExit \/ GroupGet \/ GroupFind

SpecGroup == Init /\ [][NextGroup]_vars

(* C28: when Router.group has finished, its callback having returned or      *)
(* thrown, groupStack is what it was before the call: with no group callback *)
(* running the stack is empty, and it holds one prefix for each callback     *)
(* that is running.                                                          *)
C28_GroupStackRestored == Len(groupStack) = groupDepth

-----------------------------------------------------------------------------
(* Request paths with leading, trailing and repeated slashes *)

SlashUris == {UriLiteral, UriWildcard}
SlashUrls == {<<"/", "u", "/", "m">>, <<"/", "u", "/", "/", "m", "/">>,
              <<"u", "/", "m">>, <<"/", "u">>, <<"/", "u", "/">>,
              <<"/", "/", "u", "/", "/">>, <<"/">>}

SlashGet == \E uri \in SlashUris : get(uri)
SlashPost == \E uri \in SlashUris : post(uri)
SlashFind == \E m \in RequestMethods, url \in SlashUrls : FindRoute(m, url)

NextSlash == SlashGet \/ SlashPost \/ SlashFind

SpecSlash == Init /\ [][NextSlash]_vars

(* C29: a wildcard pattern matches only when at least one request segment    *)
(* remains at the wildcard position: a request that ends where the wildcard  *)
(* begins is not answered by the wildcard route, and the value bound to '*'  *)
(* is never the empty string.                                                *)
C29_WildcardNeedsSegment ==
    (Looked /\ ret.found) =>
        LET pattern == PatternOf(ret.route)
        IN  /\ (Len(pattern) > 0 /\ IsWildcardSegment(pattern[Len(pattern)]))
                  => Len(RequestParts) >= Len(pattern)
            /\ <<"*">> \in DOMAIN ret.params => ret.params[<<"*">>] # <<>>

\* only /u/* is registered for the method and /u/ is not found
C29_Witness ==
    /\ Looked /\ ~ret.found
    /\ ret.url = <<"/", "u", "/">>
    /\ \E rid \in 1..Len(routes) :
           routes[rid].uri = UriWildcard /\ SoleRoute(ret.method, rid)

\* the path made of the non-empty segments of the request path
Canonical(url) == <<"/">> \o JoinParts(SplitParts(url))

(* C30: findRoute depends only on the non-empty segments of the request      *)
(* path: a path with leading, trailing or repeated slashes resolves to the   *)
(* route and params of the path with the same segments joined by single      *)
(* slashes.                                                                  *)
C30_OnlySegmentsMatter ==
    Looked =>
        LET canonical == findRoute(tree, routes, ret.method, Canonical(ret.url))
        IN  /\ ret.found = canonical.found
            /\ ret.route = canonical.route
            /\ ret.params = canonical.params
            /\ (/\ RouteAt(tree, NodeId(ret.method, RequestParts)) # NoRoute
                /\ AllLiteral(RequestParts))
               => /\ ret.found
                  /\ ret.route = RouteAt(tree, NodeId(ret.method, RequestParts))

\* /u/m is registered and /u//m/ resolves to its route
C30_Witness ==
    /\ Looked /\ ret.found
    /\ ret.url = <<"/", "u", "/", "/", "m", "/">>
    /\ routes[ret.route].uri = UriLiteral

====
